---- MODULE Spec2Model ----
(***************************************************************************)
(* Merkle root computation, tree geometry, positional node hashing and     *)
(* the divergent-leaf search of src/src/consensus/merkle.cpp.              *)
(*                                                                         *)
(* A uint256 is a finite sequence: a leaf value k is <<k>> and the double  *)
(* SHA-256 of the 64 bytes l || r is the ordered pair <<l, r>>, so two     *)
(* hashes are equal exactly when they were built the same way (no          *)
(* collisions) and a leaf may itself hold the hash of two other values.    *)
(*                                                                         *)
(* A uint64_t is an integer; a value of 2^63 or more is written in two's   *)
(* complement (2^64 - k is -k), so 0 - 1 is the wrapped value 2^64 - 1.    *)
(***************************************************************************)
EXTENDS Integers, Sequences, FiniteSets, TLC

VARIABLES pc, hashs1, hashs2, mutatedPtr, mutated1, mutated2, root1, root2,
          nodeHash, size, leaves, height, index, result, calls, iters

vars == <<pc, hashs1, hashs2, mutatedPtr, mutated1, mutated2, root1, root2,
          nodeHash, size, leaves, height, index, result, calls, iters>>

(***************************************************************************)
(* Bounds of the model.                                                    *)
(***************************************************************************)
\* longest vector of the exhaustive root inputs
MaxLen == 5
\* longest vector of the exhaustive pairs given to findDiffLeaf
MaxDiffLen == 4
\* tallest tree of the one-leaf-changed pairs (2^MaxHeight leaves)
MaxHeight == 5
\* longest vector of the pairs of unequal length
MaxPairLen == 8
\* largest vector size given to CalcTreeHeight alone
MaxLeaves == 40
\* number of leaf values the six-leaf lists are drawn from, less one
NumAtoms == 6

(***************************************************************************)
(* uint256 values.                                                         *)
(***************************************************************************)
Atom(k) == <<k>>

\* uint256(): the all-zero hash
Zero == Atom(0)

\* double SHA-256 of l || r
Sha256d(l, r) == <<l, r>>

Pow2(n) == 2 ^ n

(***************************************************************************)
(* ComputeMerkleRoot                                                       *)
(***************************************************************************)
\* variant: the equal-pair scan run after the odd level was padded
MutationScanPadded(hashes) ==
    LET padded == IF Len(hashes) % 2 = 1
                  THEN Append(hashes, hashes[Len(hashes)]) ELSE hashes
    IN  \E pos \in 0..(Len(padded) - 1) :
           /\ pos % 2 = 0
           /\ pos + 1 < Len(padded)
           /\ padded[pos + 1] = padded[pos + 2]

\* for (pos = 0; pos + 1 < size; pos += 2) if (hashes[pos] == hashes[pos+1])
MutationScan(hashes) ==
    \E pos \in 0..(Len(hashes) - 1) :
       /\ pos % 2 = 0
       /\ pos + 1 < Len(hashes)
       /\ hashes[pos + 1] = hashes[pos + 2]

\* variant: an odd level left unpadded
PadOddNone(hashes) == hashes

\* if (hashes.size() & 1) hashes.push_back(hashes.back())

PadOdd(hashes) ==
    IF Len(hashes) % 2 = 1 THEN Append(hashes, hashes[Len(hashes)]) ELSE hashes

\* SHA256D64(out, in, blocks) with out = in = hashes[0].begin(): block i is
\* read from bytes 64i..64i+63 and written to bytes 32i..32i+31
SHA256D64(hashes, blocks) ==
    [i \in 1..Len(hashes) |->
        IF i <= blocks THEN Sha256d(hashes[2 * i - 1], hashes[2 * i])
        ELSE hashes[i]]

\* hashes.resize(n)
Resize(hashes, n) == SubSeq(hashes, 1, n)

\* one iteration of while (hashes.size() > 1)
MerkleLevel(st, mutatedP) ==
    LET scanned == IF mutatedP /\ MutationScan(st.hashes) THEN TRUE
                   ELSE st.mutation
        padded  == PadOdd(st.hashes)
        hashed  == SHA256D64(padded, Len(padded) \div 2)
    IN  [hashes |-> Resize(hashed, Len(padded) \div 2), mutation |-> scanned]

RECURSIVE MerkleFold(_, _)
MerkleFold(st, mutatedP) ==
    IF Len(st.hashes) > 1 THEN MerkleFold(MerkleLevel(st, mutatedP), mutatedP)
    ELSE st

\* variant: a single remaining hash combined with itself
MerkleReturnPaired(hashes) ==
    IF Len(hashes) = 0 THEN Zero ELSE Sha256d(hashes[1], hashes[1])

\* if (hashes.size() == 0) return uint256(); return hashes[0];
MerkleReturn(hashes) ==
    IF Len(hashes) = 0 THEN Zero ELSE hashes[1]

\* the returned root, the value of the local mutation, and whether *mutated
\* is written
ComputeMerkleRoot(hashes, mutatedP) ==
    LET st == MerkleFold([hashes |-> hashes, mutation |-> FALSE], mutatedP)
    IN  [root |-> MerkleReturn(st.hashes), mutation |-> st.mutation,
         written |-> mutatedP]

(***************************************************************************)
(* CalcTreeWidth, CalcTreeHeight                                           *)
(***************************************************************************)
\* variant: the width rounded down
CalcTreeWidthFloor(h, n) == n \div Pow2(h)

\* (leaves + ((uint64_t)1 << height) - 1) >> height; the sum stays below
\* 2^64 for every vector size and every height up to the tree's

CalcTreeWidth(h, n) == (n + Pow2(h) - 1) \div Pow2(h)

\* if (leaves & 1) leaves += 1; leaves >>= 1;
HeightStep(n) == (IF n % 2 = 1 THEN n + 1 ELSE n) \div 2

RECURSIVE HeightOfSize(_)
HeightOfSize(n) == IF n > 1 THEN 1 + HeightOfSize(HeightStep(n)) ELSE 0

CalcTreeHeight(hashes) == HeightOfSize(Len(hashes))

(***************************************************************************)
(* Hash, CalcHash                                                          *)
(***************************************************************************)
\* CHash256().Write(left).Write(right).Finalize(result)
Hash(l, r) == Sha256d(l, r)

\* variant: the last right child of a level taken as missing
HasRightOffByOne(h, pos, n) == pos * 2 + 2 < CalcTreeWidth(h - 1, n)

\* pos * 2 + 1 < CalcTreeWidth(height - 1, leaves)

HasRight(h, pos, n) == pos * 2 + 1 < CalcTreeWidth(h - 1, n)

\* the hash of node (h, pos), for a position inside the tree of a non-empty
\* vector: every hashs[pos] read is then inside the vector
RECURSIVE CalcHash(_, _, _)
CalcHash(h, pos, hashs) ==
    IF h = 0 THEN hashs[pos + 1]
    ELSE LET left  == CalcHash(h - 1, pos * 2, hashs)
             right == IF HasRight(h, pos, Len(hashs))
                      THEN CalcHash(h - 1, pos * 2 + 1, hashs)
                      ELSE left
         IN  Hash(left, right)

\* assert(leaves != 0)
CalcHashAsserts(hashs) == Len(hashs) # 0

\* the leftmost leaf under (h, pos) is pos * 2^h: the recursion reads
\* hashs[pos * 2^h] first, past the end when pos is no node of level h
InTree(h, pos, hashs) == pos < CalcTreeWidth(h, Len(hashs))

\* a level of 2^63 or more: the recursion is deeper than the address space
StackExhausted(h) == h < 0

(***************************************************************************)
(* Inputs                                                                  *)
(***************************************************************************)
One == Atom(1)

SmallLeaves == {Zero, One, Sha256d(One, One)}

\* s, its last leaf repeated when its length is odd
LastRepeated(s) == IF Len(s) % 2 = 1 THEN Append(s, s[Len(s)]) ELSE s

SeqsUpTo(n, S) == UNION {[1..k -> S] : k \in 0..n}

\* 0: pairwise distinct leaves; 1: one leaf repeated; 2: two leaves
\* alternating; 3: every leaf twice in a row
Patterns == 0..3

Pattern(p, n) ==
    [k \in 1..n |-> Atom(CASE p = 0 -> k
                           [] p = 1 -> 1
                           [] p = 2 -> k % 2
                           [] OTHER -> (k + 1) \div 2)]

\* values a leaf x can be changed to
Replacements(x) == {Zero, One, Sha256d(x, x)} \ {x}

LeafPool == {Atom(k) : k \in 0..(NumAtoms - 1)} \cup {Sha256d(One, Atom(2))}

Injective(f) == \A i, j \in DOMAIN f : f[i] = f[j] => i = j

(***************************************************************************)
(* CalcTreeHeight, one loop iteration a step                               *)
(***************************************************************************)
InitGeom ==
    /\ pc = "height_loop"
    /\ size \in 0..MaxLeaves
    /\ leaves = size
    /\ height = 0
    /\ hashs1 = <<>>
    /\ hashs2 = <<>>
    /\ mutatedPtr = TRUE
    /\ mutated1 = FALSE
    /\ mutated2 = FALSE
    /\ root1 = Zero
    /\ root2 = Zero
    /\ nodeHash = Zero
    /\ index = 0
    /\ result = 0
    /\ calls = <<>>
    /\ iters = 0

\* while (leaves > 1) { if (leaves & 1) leaves += 1; leaves >>= 1; ++height; }
HeightLoop ==
    /\ pc = "height_loop"
    /\ leaves > 1
    /\ leaves' = HeightStep(leaves)
    /\ height' = height + 1
    /\ UNCHANGED <<pc, hashs1, hashs2, mutatedPtr, mutated1, mutated2, root1,
                   root2, nodeHash, size, index, result, calls, iters>>

\* return height;
HeightReturn ==
    /\ pc = "height_loop"
    /\ ~(leaves > 1)
    /\ pc' = "height_done"
    /\ result' = height
    /\ UNCHANGED <<hashs1, hashs2, mutatedPtr, mutated1, mutated2, root1,
                   root2, nodeHash, size, leaves, height, index, calls, iters>>

NextGeom == HeightLoop \/ HeightReturn

SpecGeom == InitGeom /\ [][NextGeom]_vars

(***************************************************************************)
(* ComputeMerkleRoot(hashs1, p), ComputeMerkleRoot(hashs2, p) and          *)
(* CalcHash(CalcTreeHeight(hashs1), 0, hashs1), called one after another;  *)
(* p is &mutated1, &mutated2 or nullptr                                    *)
(***************************************************************************)
RootInputs ==
    \/ /\ hashs1 \in SeqsUpTo(MaxLen, SmallLeaves)
       /\ hashs2 = LastRepeated(hashs1)
    \/ \E p \in Patterns, n \in 0..Pow2(MaxHeight) :
          /\ hashs1 = Pattern(p, n)
          /\ hashs2 = LastRepeated(hashs1)
    \/ \E h \in [1..6 -> LeafPool] :
          /\ Injective(h)
          /\ hashs1 = h
          /\ hashs2 = h \o <<h[5], h[6]>>

InitRoot ==
    /\ pc = "root1"
    /\ RootInputs
    /\ mutatedPtr \in BOOLEAN
    /\ mutated1 \in BOOLEAN
    /\ mutated2 = mutated1
    /\ root1 = Zero
    /\ root2 = Zero
    /\ nodeHash = Zero
    /\ size = 0
    /\ leaves = 0
    /\ height = 0
    /\ index = 0
    /\ result = 0
    /\ calls = <<>>
    /\ iters = 0

RootCall1 ==
    /\ pc = "root1"
    /\ LET r == ComputeMerkleRoot(hashs1, mutatedPtr)
       IN  /\ root1' = r.root
           /\ mutated1' = IF r.written THEN r.mutation ELSE mutated1
    /\ pc' = "root2"
    /\ UNCHANGED <<hashs1, hashs2, mutatedPtr, mutated2, root2, nodeHash, size,
                   leaves, height, index, result, calls, iters>>

RootCall2 ==
    /\ pc = "root2"
    /\ LET r == ComputeMerkleRoot(hashs2, mutatedPtr)
       IN  /\ root2' = r.root
           /\ mutated2' = IF r.written THEN r.mutation ELSE mutated2
    /\ pc' = "calchash"
    /\ UNCHANGED <<hashs1, hashs2, mutatedPtr, mutated1, root1, nodeHash, size,
                   leaves, height, index, result, calls, iters>>

CalcHashCall ==
    /\ pc = "calchash"
    /\ IF CalcHashAsserts(hashs1)
       THEN /\ nodeHash' = CalcHash(CalcTreeHeight(hashs1), 0, hashs1)
            /\ pc' = "done"
       ELSE /\ pc' = "assert_failed"
            /\ UNCHANGED nodeHash
    /\ UNCHANGED <<hashs1, hashs2, mutatedPtr, mutated1, mutated2, root1, root2,
                   size, leaves, height, index, result, calls, iters>>

NextRoot == RootCall1 \/ RootCall2 \/ CalcHashCall

SpecRoot == InitRoot /\ [][NextRoot]_vars

(***************************************************************************)
(* findDiffLeaf(hashs1, hashs2), one loop iteration a step                 *)
(***************************************************************************)
\* --height on a uint64_t: 0 becomes 2^64 - 1
Dec64(x) == x - 1

NoValue == [kind |-> "crash", value |-> Zero]

\* what one call CalcHash(h, pos, hashs) can do: fail its assertion, exhaust
\* the stack, read hashs[pos] past the end of the vector (the read returns
\* whatever the memory holds, or faults), or return the node's hash
CalcHashOutcomes(h, pos, hashs) ==
    IF ~CalcHashAsserts(hashs) THEN {[kind |-> "assert", value |-> Zero]}
    ELSE IF StackExhausted(h) THEN {NoValue}
    ELSE IF ~InTree(h, pos, hashs)
         THEN {[kind |-> "garbage", value |-> Zero], NoValue}
    ELSE {[kind |-> "value", value |-> CalcHash(h, pos, hashs)]}

Fatal(o) == o.kind \in {"assert", "crash"}

\* CalcHash(h, pos, hashs1) == CalcHash(h, pos, hashs2), the operands
\* evaluated in either order
Compare(h, pos, v1, v2) ==
    UNION {
        IF Fatal(o1) \/ Fatal(o2)
        THEN {o.kind : o \in {x \in {o1, o2} : Fatal(x)}}
        ELSE IF o1.kind = "value" /\ o2.kind = "value"
             THEN {IF o1.value = o2.value THEN "equal" ELSE "differ"}
        ELSE {"equal", "differ"}
        : o1 \in CalcHashOutcomes(h, pos, v1),
          o2 \in CalcHashOutcomes(h, pos, v2)}

\* variant: the right branch entered at index * 2 + 1
RightIndexPlusOne(i) == i * 2 + 1

\* index = index * 2 + 2

RightIndex(i) == i * 2 + 2

\* index = index * 2
LeftIndex(i) == i * 2

Exit(kind) == IF kind = "assert" THEN "assert_failed" ELSE "crashed"

DiffInputs ==
    \/ /\ hashs1 \in SeqsUpTo(MaxDiffLen, SmallLeaves)
       /\ hashs2 \in SeqsUpTo(MaxDiffLen, SmallLeaves)
    \/ \E p \in Patterns, n \in 3..Pow2(MaxHeight) :
          \E i \in 1..n :
             \E v \in Replacements(Pattern(p, n)[i]) :
                /\ hashs1 = Pattern(p, n)
                /\ hashs2 = [Pattern(p, n) EXCEPT ![i] = v]
    \/ \E p \in Patterns, m \in 0..MaxPairLen, n \in 1..MaxPairLen :
          \E i \in 1..n :
             \E v \in Replacements(Pattern(p, n)[i]) \cup {Pattern(p, n)[i]} :
                /\ hashs1 = Pattern(p, m)
                /\ hashs2 = [Pattern(p, n) EXCEPT ![i] = v]

InitDiff ==
    /\ pc = "diff_enter"
    /\ DiffInputs
    /\ mutatedPtr = TRUE
    /\ mutated1 = FALSE
    /\ mutated2 = FALSE
    /\ root1 = Zero
    /\ root2 = Zero
    /\ nodeHash = Zero
    /\ size = 0
    /\ leaves = 0
    /\ height = 0
    /\ index = 0
    /\ result = 0
    /\ calls = <<>>
    /\ iters = 0

\* lines 118-126: both roots (each call writes dummy), the early return of
\* index 0, the two heights and assert(height == height2)
FindDiffEnter ==
    /\ pc = "diff_enter"
    /\ LET r1 == ComputeMerkleRoot(hashs1, TRUE)
           r2 == ComputeMerkleRoot(hashs2, TRUE)
       IN  /\ root1' = r1.root
           /\ root2' = r2.root
           /\ mutated1' = r2.mutation
           /\ IF r1.root = r2.root
              THEN /\ result' = index
                   /\ pc' = "returned"
                   /\ UNCHANGED height
              ELSE /\ height' = CalcTreeHeight(hashs1)
                   /\ pc' = IF CalcTreeHeight(hashs1) = CalcTreeHeight(hashs2)
                            THEN "diff_loop" ELSE "assert_failed"
                   /\ UNCHANGED result
    /\ UNCHANGED <<hashs1, hashs2, mutatedPtr, mutated2, nodeHash, size,
                   leaves, index, calls, iters>>

\* lines 128-134: while (--height) { ... }
FindDiffLoop ==
    /\ pc = "diff_loop"
    /\ height' = Dec64(height)
    /\ IF height' = 0
       THEN /\ pc' = "diff_leaf"
            /\ UNCHANGED <<index, calls, iters>>
       ELSE /\ calls' = Append(calls, <<height', index>>)
            /\ iters' = iters + 1
            /\ \E c \in Compare(height', index, hashs1, hashs2) :
                  IF c \in {"equal", "differ"}
                  THEN /\ index' = IF c = "differ" THEN LeftIndex(index)
                                   ELSE RightIndex(index)
                       /\ pc' = "diff_loop"
                  ELSE /\ pc' = Exit(c)
                       /\ UNCHANGED index
    /\ UNCHANGED <<hashs1, hashs2, mutatedPtr, mutated1, mutated2, root1, root2,
                   nodeHash, size, leaves, result>>

\* lines 135-137: the leaf level, and the return
FindDiffLeafLevel ==
    /\ pc = "diff_leaf"
    /\ IF height = 0
       THEN /\ calls' = Append(calls, <<height, index>>)
            /\ \E c \in Compare(height, index, hashs1, hashs2) :
                  IF c \in {"equal", "differ"}
                  THEN /\ index' = IF c = "equal" THEN index + 1 ELSE index
                       /\ result' = index'
                       /\ pc' = "returned"
                  ELSE /\ pc' = Exit(c)
                       /\ UNCHANGED <<index, result>>
       ELSE /\ result' = index
            /\ pc' = "returned"
            /\ UNCHANGED <<index, calls>>
    /\ UNCHANGED <<hashs1, hashs2, mutatedPtr, mutated1, mutated2, root1, root2,
                   nodeHash, size, leaves, height, iters>>

NextDiff == FindDiffEnter \/ FindDiffLoop \/ FindDiffLeafLevel

SpecDiff == InitDiff /\ [][NextDiff]_vars

(***************************************************************************)
(* Properties                                                              *)
(***************************************************************************)
\* the leaf indices (from 0) at which two vectors of one length differ
DiffSet(a, b) == {i \in 0..(Len(a) - 1) : a[i + 1] # b[i + 1]}

SameLeaf(a, b, i) == i < Len(a) /\ i < Len(b) /\ a[i + 1] = b[i + 1]

LongerLen(a, b) == IF Len(a) < Len(b) THEN Len(b) ELSE Len(a)

\* the smallest index at which a and b do not hold the same leaf
FirstDiff(a, b) ==
    CHOOSE i \in 0..LongerLen(a, b) :
       /\ ~SameLeaf(a, b, i)
       /\ \A j \in 0..(i - 1) : SameLeaf(a, b, j)

\* some level of the tree of hashs, the leaves or a combined level, holds
\* the same hash at positions 2i and 2i+1, both inside the level
GenuinePair(hashs) ==
    \E h \in 0..(CalcTreeHeight(hashs) - 1) :
       \E i \in 0..Len(hashs) :
          /\ 2 * i + 1 < CalcTreeWidth(h, Len(hashs))
          /\ CalcHash(h, 2 * i, hashs) = CalcHash(h, 2 * i + 1, hashs)

EqualHeights == CalcTreeHeight(hashs1) = CalcTreeHeight(hashs2)

\* C1: once both have run on a non-empty vector, the recursive positional
\* hash of the top node (CalcTreeHeight, 0) is the root the iterative fold
\* returned
C1_RootAgreement == pc = "done" => nodeHash = root1

C1_Witness ==
    /\ pc = "done"
    /\ Len(hashs1) = 5
    /\ Injective(hashs1)
    /\ nodeHash = root1

\* C4: with a non-null mutated pointer the flag is set exactly when some
\* level holds a genuine adjacent equal pair; the pad of an odd level never
\* sets it, so pairwise distinct leaves of odd length leave it false
C4_MutatedIffGenuinePair ==
    /\ (pc # "root1" /\ mutatedPtr) =>
          /\ mutated1 = GenuinePair(hashs1)
          /\ (Len(hashs1) % 2 = 1 /\ Injective(hashs1)) => ~mutated1
    /\ (pc \notin {"root1", "root2"} /\ mutatedPtr) =>
          mutated2 = GenuinePair(hashs2)

C4_Witness ==
    /\ pc = "root2"
    /\ mutatedPtr
    /\ Len(hashs1) = 5
    /\ Injective(hashs1)
    /\ ~mutated1

\* C5: for pairwise distinct h1..h6 the lists [h1..h6] and [h1..h6,h5,h6]
\* have the same root, and the flag is false for the first and true for the
\* second
SixAndEight ==
    /\ Len(hashs1) = 6
    /\ Injective(hashs1)
    /\ hashs2 = hashs1 \o <<hashs1[5], hashs1[6]>>

C5_SameRootOtherFlag ==
    (pc \in {"calchash", "done"} /\ mutatedPtr /\ SixAndEight) =>
       /\ root1 = root2
       /\ mutated1 = FALSE
       /\ mutated2 = TRUE

C5_Witness ==
    /\ pc = "calchash"
    /\ mutatedPtr
    /\ SixAndEight
    /\ root1 = root2
    /\ mutated2

\* C8: the empty vector gives the all-zero hash and a single leaf gives the
\* leaf itself, uncombined, and the flag, when reported, is false
C8_FewerThanTwoLeaves ==
    pc # "root1" =>
       /\ Len(hashs1) = 0 => root1 = Zero /\ (mutatedPtr => ~mutated1)
       /\ Len(hashs1) = 1 => root1 = hashs1[1] /\ (mutatedPtr => ~mutated1)

C8_Witness ==
    /\ pc = "root2"
    /\ mutatedPtr
    /\ Len(hashs1) = 1
    /\ root1 = hashs1[1]
    /\ ~mutated1

\* C6: for a leaf count of 1 or more, the closed-form width of level 0 is
\* the leaf count, the loop of CalcTreeHeight holds the closed-form width of
\* the level it is at, each next width is the half, rounded up, of the
\* width before, and the width is 1 first at the returned height
C6_HeightWidthConsistent ==
    size >= 1 =>
       /\ CalcTreeWidth(0, size) = size
       /\ leaves = CalcTreeWidth(height, size)
       /\ (pc = "height_loop" /\ leaves > 1) =>
             CalcTreeWidth(height + 1, size)
                = (CalcTreeWidth(height, size) + 1) \div 2
       /\ pc = "height_done" =>
             /\ result = HeightOfSize(size)
             /\ CalcTreeWidth(result, size) = 1
             /\ \A h \in 0..(result - 1) : CalcTreeWidth(h, size) > 1

C6_Witness ==
    /\ pc = "height_done"
    /\ size = 5
    /\ result = 3
    /\ CalcTreeWidth(2, size) = 2

\* C3: two vectors of one length, of tree height 2 or more, that differ at
\* exactly one leaf index: findDiffLeaf returns that index
C3_SingleDiffFound ==
    (/\ pc = "returned"
     /\ Len(hashs1) = Len(hashs2)
     /\ CalcTreeHeight(hashs1) >= 2
     /\ Cardinality(DiffSet(hashs1, hashs2)) = 1)
        => result \in DiffSet(hashs1, hashs2)

C3_Witness ==
    /\ pc = "returned"
    /\ Len(hashs1) = 8
    /\ Len(hashs2) = 8
    /\ DiffSet(hashs1, hashs2) = {5}
    /\ result = 5

\* C2: for vectors of equal tree height and different roots findDiffLeaf
\* returns the smallest index at which they do not hold the same leaf
C2_FirstDiffReturned ==
    (pc = "returned" /\ EqualHeights /\ root1 # root2)
       => result = FirstDiff(hashs1, hashs2)

\* C7: vectors of different tree heights never make findDiffLeaf return
C7_MismatchIsFatal == ~EqualHeights => pc # "returned"

\* C9: for equal heights and different roots findDiffLeaf runs its loop at
\* most CalcTreeHeight(hashs1) times and calls CalcHash only with a level
\* from 0 to that height
C9_BoundedDescent ==
    /\ iters <= CalcTreeHeight(hashs1)
    /\ \A k \in DOMAIN calls :
          calls[k][1] >= 0 /\ calls[k][1] <= CalcTreeHeight(hashs1)

\* C10: every CalcHash(level, index, s) findDiffLeaf makes, at a level that
\* is a level of the tree, has index < CalcTreeWidth(level, len(s)) for
\* both vectors
C10_CallsInRange ==
    \A k \in DOMAIN calls :
       ~StackExhausted(calls[k][1]) =>
          /\ InTree(calls[k][1], calls[k][2], hashs1)
          /\ InTree(calls[k][1], calls[k][2], hashs2)

====
